---- MODULE Spec2Model ----
(***************************************************************************)
(* State-machine model of DamEdit-CLI (src/main.py): the editor session    *)
(* loop main_curses, the viewport clamp, the search index and the          *)
(* highlight span builder.                                                 *)
(*                                                                         *)
(* Text is a sequence of characters; a character is a one-element token.   *)
(* "Idot" stands for U+0130 (capital I with dot above), whose Python       *)
(* str.lower() is the two characters "i" and "cdot" (U+0307).              *)
(* Python's None is the reserved one-token sequence None below, which is   *)
(* no text over the alphabet.                                              *)
(***************************************************************************)
EXTENDS Integers, Sequences, FiniteSets, TLC

VARIABLES lines, trailing_nl, top, sel, window_h, modified,
          search_term, search_matches, match_index,
          status_msg, status_type,
          scr_h, key, inp, wrote, pc,
          fp_line, fp_term, fp_res

vars == <<lines, trailing_nl, top, sel, window_h, modified,
          search_term, search_matches, match_index,
          status_msg, status_type, scr_h, key, inp, wrote, pc,
          fp_line, fp_term, fp_res>>

\* ---------------------------------------------------------------- bounds
\* largest number of lines a file of the session holds
MaxLines == 4
\* largest terminal height (rows) the terminal is resized to
MaxScrH == 5
\* longest line handed to find_positions
MaxLineLen == 4
\* longest search term handed to find_positions and recompute_search
MaxTermLen == 2
\* largest buffer handed to recompute_search on its own
MaxScanLines == 3

\* ---------------------------------------------------------------- helpers
None == <<"None">>

Max(a, b) == IF a >= b THEN a ELSE b

Min(a, b) == IF a <= b THEN a ELSE b

\* Python s[i:j] for 0 <= i <= j (the end is clipped to len(s))
Slice(s, i, j) == SubSeq(s, i + 1, Min(j, Len(s)))

\* str.lower() of one character
LowerCh(c) ==
  CASE c = "A" -> <<"a">>
    [] c = "B" -> <<"b">>
    [] c = "Y" -> <<"y">>
    [] c = "Idot" -> <<"i", "cdot">>
    [] OTHER -> <<c>>

RECURSIVE Lower(_)
\* str.lower(): character by character, the result may be longer than s
Lower(s) == IF s = <<>> THEN <<>> ELSE LowerCh(Head(s)) \o Lower(Tail(s))

\* Python `t in s` for strings
Contains(t, s) ==
  \E i \in 0..(Len(s) - Len(t)) : Slice(s, i, i + Len(t)) = t

RECURSIVE LStrip(_)
LStrip(s) == IF s # <<>> /\ Head(s) = " " THEN LStrip(Tail(s)) ELSE s

RECURSIVE RStrip(_)
RStrip(s) ==
  IF s # <<>> /\ s[Len(s)] = " " THEN RStrip(SubSeq(s, 1, Len(s) - 1)) ELSE s

\* str.strip()
Strip(s) == RStrip(LStrip(s))

\* all sequences over S of length 0..n
SeqsUpTo(S, n) == UNION {[1..k -> S] : k \in 0..n}

\* ---------------------------------------------------------------- files
\* the line texts that occur in files and in edit prompts
Texts == {<<"A", "b">>, <<"b">>}

RECURSIVE Join(_, _)
\* sep.join(ls)
Join(ls, sep) ==
  IF ls = <<>> THEN <<>>
  ELSE IF Len(ls) = 1 THEN ls[1]
  ELSE ls[1] \o sep \o Join(Tail(ls), sep)

\* write_file: the text written for (lines, trailing)
write_file(ls, trailing) ==
  Join(ls, <<"\n">>) \o (IF trailing THEN <<"\n">> ELSE <<>>)

RECURSIVE ReplaceCRLF(_)
\* raw.replace(b"\r\n", b"\n")
ReplaceCRLF(raw) ==
  IF raw = <<>> THEN <<>>
  ELSE IF Len(raw) >= 2 /\ raw[1] = "\r" /\ raw[2] = "\n"
       THEN <<"\n">> \o ReplaceCRLF(SubSeq(raw, 3, Len(raw)))
       ELSE <<raw[1]>> \o ReplaceCRLF(Tail(raw))

RECURSIVE Split(_, _)
\* text.split("\n"); cur is the piece being collected
Split(text, cur) ==
  IF text = <<>> THEN <<cur>>
  ELSE IF Head(text) = "\n" THEN <<cur>> \o Split(Tail(text), <<>>)
  ELSE Split(Tail(text), Append(cur, Head(text)))

\* read_file on an existing, readable file holding raw
read_file(raw) ==
  LET text == ReplaceCRLF(raw)
      trailing == text # <<>> /\ text[Len(text)] = "\n"
      ls == Split(text, <<>>)
      ls2 == IF ls # <<>> /\ ls[Len(ls)] = <<>> /\ ~trailing
             THEN SubSeq(ls, 1, Len(ls) - 1) ELSE ls
  IN [lines |-> ls2, trailing |-> trailing]

\* a file body of k lines: "Ab", "b", "Ab", ...
FileBody(k) == [i \in 1..k |-> IF i % 2 = 1 THEN <<"A", "b">> ELSE <<"b">>]

\* the contents the file may hold when it is read: 0..MaxLines lines
\* separated by LF, one CRLF file, one file ending in a line break (which
\* read_file turns into a last empty line)
Files ==
  {Join(FileBody(k), <<"\n">>) : k \in 0..MaxLines}
  \cup {Join(FileBody(2), <<"\r", "\n">>)}
  \cup {Join(FileBody(1), <<"\n">>) \o <<"\n">>}

\* the terminal heights: 2 rows (less than the header and status rows
\* leave for a window) and 4..MaxScrH rows
ScrHeights == {2} \cup 4..MaxScrH

\* ---------------------------------------------------------------- viewport
\* clamp without the last step that pins the selection to the last line
clamp_no_pin(t, s, total, wh) ==
  IF wh <= 0 THEN <<t, s>>
  ELSE
    LET max_top == Max(0, total - wh)
        t1 == IF t < 0 THEN 0 ELSE t
        t2 == IF t1 > max_top THEN max_top ELSE t1
        s1 == IF s < 0 THEN 0 ELSE s
        s2 == IF s1 >= wh THEN wh - 1 ELSE s1
    IN <<t2, s2>>

\* clamp that moves a selection past the end up by one row only
clamp_step_back(t, s, total, wh) ==
  IF wh <= 0 THEN <<t, s>>
  ELSE
    LET max_top == Max(0, total - wh)
        t1 == IF t < 0 THEN 0 ELSE t
        t2 == IF t1 > max_top THEN max_top ELSE t1
        s1 == IF s < 0 THEN 0 ELSE s
        s2 == IF s1 >= wh THEN wh - 1 ELSE s1
    IN IF t2 + s2 >= total
       THEN IF total = 0 THEN <<0, 0>>
            ELSE IF s2 > 0 THEN <<t2, s2 - 1>> ELSE <<t2 - 1, s2>>
       ELSE <<t2, s2>>

\* EditorState.clamp: the (top, sel) it leaves
clamp(t, s, total, wh) ==
  IF wh <= 0 THEN <<t, s>>
  ELSE
    LET max_top == Max(0, total - wh)
        t1 == IF t < 0 THEN 0 ELSE t
        t2 == IF t1 > max_top THEN max_top ELSE t1
        s1 == IF s < 0 THEN 0 ELSE s
        s2 == IF s1 >= wh THEN wh - 1 ELSE s1
    IN IF t2 + s2 >= total
       THEN IF total = 0 THEN <<0, 0>>
            ELSE LET last == total - 1
                     t3 == Max(0, last - (wh - 1))
                 IN <<t3, last - t3>>
       ELSE <<t2, s2>>

\* EditorState.selected_index
selected_index == top + sel

\* EditorState.total
total == Len(lines)

\* ---------------------------------------------------------------- search
RECURSIVE search_scan(_, _, _)
\* the scan comparing the lower-cased term with the line as written
search_scan_cased(ls, t, i) ==
  IF i >= Len(ls) THEN <<>>
  ELSE (IF Contains(t, ls[i + 1]) THEN <<i>> ELSE <<>>)
       \o search_scan(ls, t, i + 1)

\* recompute_search, the scan: 0-based indices of the lines from index i on
\* whose lower-cased text contains t
search_scan(ls, t, i) ==
  IF i >= Len(ls) THEN <<>>
  ELSE (IF Contains(t, Lower(ls[i + 1])) THEN <<i>> ELSE <<>>)
       \o search_scan(ls, t, i + 1)

RECURSIVE match_cursor(_, _, _)
\* the for/else taking the first match strictly after s
match_cursor_strict(ms, s, idx) ==
  IF idx >= Len(ms) THEN 0
  ELSE IF ms[idx + 1] > s THEN idx
  ELSE match_cursor(ms, s, idx + 1)

\* recompute_search, the for/else: 0-based position of the first match
\* from position idx on whose line is >= s, else 0
match_cursor(ms, s, idx) ==
  IF idx >= Len(ms) THEN 0
  ELSE IF ms[idx + 1] >= s THEN idx
  ELSE match_cursor(ms, s, idx + 1)

\* recompute_search without the for/else that places the match cursor
recompute_search_no_cursor(ls, term, s) ==
  IF term = None \/ term = <<>>
  THEN [matches |-> <<>>, index |-> -1]
  ELSE [matches |-> search_scan(ls, Lower(term), 0), index |-> -1]

\* recompute_search: the (search_matches, match_index) it leaves
recompute_search(ls, term, s) ==
  IF term = None \/ term = <<>>
  THEN [matches |-> <<>>, index |-> -1]
  ELSE LET ms == search_scan(ls, Lower(term), 0)
       IN IF ms = <<>> THEN [matches |-> <<>>, index |-> -1]
          ELSE [matches |-> ms, index |-> match_cursor(ms, s, 0)]

\* the cursor move that stops at the first match instead of wrapping
advance_no_wrap(mi, n, forward) ==
  IF mi = -1 THEN 0
  ELSE IF forward THEN (mi + 1) % n ELSE Max(0, mi - 1)

\* goto_search_match: the match_index it moves to
advance(mi, n, forward) ==
  IF mi = -1 THEN 0
  ELSE (mi + (IF forward THEN 1 ELSE -1)) % n

\* goto_search_match on a non-empty match list
goto_search_match(ms, mi, ls, wh, forward) ==
  LET idx == advance(mi, Len(ms), forward)
      target == ms[idx + 1]
      half == wh \div 2
      t1 == Max(0, target - half)
      c == clamp(t1, target - t1, Len(ls), wh)
  IN [index |-> idx, top |-> c[1], sel |-> c[2],
      status |-> [text |-> "Match {}/{} at {}",
                  args |-> <<idx + 1, Len(ms), target + 1>>]]

RECURSIVE fp_loop(_, _, _, _, _)
\* find_positions, the while loop from position i with result res
fp_loop(line, low, t, i, res) ==
  LET lt == Len(t) IN
  IF i <= Len(line) - lt
  THEN IF Slice(low, i, i + lt) = t
       THEN fp_loop(line, low, t, i + lt, Append(res, <<i, i + lt>>))
       ELSE fp_loop(line, low, t, i + 1, res)
  ELSE res

\* find_positions: the (start, end) spans, 0-based and half-open
find_positions(line, term) ==
  IF term = None \/ term = <<>> THEN <<>>
  ELSE fp_loop(line, Lower(line), Lower(term), 0, <<>>)

\* ---------------------------------------------------------------- prompts
Digits == <<"0", "1", "2", "3", "4", "5", "6", "7", "8", "9">>

RECURSIVE NumStr(_)
\* the decimal text of n >= 0
NumStr(n) ==
  IF n < 10 THEN <<Digits[n + 1]>>
  ELSE NumStr(n \div 10) \o <<Digits[(n % 10) + 1]>>

\* str.isdigit(): "sup2" is U+00B2, a digit that is no decimal
IsDigit(s) ==
  s # <<>> /\ \A i \in 1..Len(s) :
     s[i] = "sup2" \/ \E d \in 1..10 : s[i] = Digits[d]

\* int(s) succeeds (s.isdigit() holds)
IntOk(s) == \A i \in 1..Len(s) : \E d \in 1..10 : s[i] = Digits[d]

RECURSIVE ToInt(_)
\* int(s) for a text of decimal digits
ToInt(s) ==
  IF s = <<>> THEN 0
  ELSE 10 * ToInt(SubSeq(s, 1, Len(s) - 1))
       + (CHOOSE d \in 0..9 : s[Len(s)] = Digits[d + 1])

\* what prompt_input returns to "Go to line: "
GotoInputs ==
  {None, <<>>, <<"x">>, <<"sup2">>}
  \cup {NumStr(n) : n \in 0..(MaxLines + 1)}

\* what prompt_input returns to "Edit line n: "
EditInputs == {None} \cup Texts

\* what prompt_input returns to "Search (empty to clear): "
SearchInputs == {None, <<" ">>, <<" ", "A">>}

\* what prompt_input returns to a (y/N) question
ConfirmInputs == {None, <<"Y">>, <<"n">>}

\* `ans and ans.lower() == "y"`
Yes(ans) == ans # None /\ ans # <<>> /\ Lower(ans) = <<"y">>

NoKey == "NONE"

\* a status message: the format text and its numeric arguments (the term
\* of "No matches for '{}'" is search_term and is not repeated here)
Msg(text, args) == [text |-> text, args |-> args]

\* set_status(st, msg, tp)
set_status(msg, tp) == status_msg' = msg /\ status_type' = tp

\* ---------------------------------------------------------------- session
fp_vars == <<fp_line, fp_term, fp_res>>

buffer_vars == <<lines, trailing_nl, modified>>

search_vars == <<search_term, search_matches, match_index>>

\* EditorState.__init__ and recompute_search (no term yet), before the
\* first draw; the terminal has some height
Init ==
  /\ \E raw \in Files :
       /\ lines = read_file(raw).lines
       /\ trailing_nl = read_file(raw).trailing
  /\ top = 0 /\ sel = 0 /\ window_h = 0
  /\ modified = FALSE
  /\ search_term = None /\ search_matches = <<>> /\ match_index = -1
  /\ status_msg = Msg("Press q to quit, h for help", <<>>)
  /\ status_type = "info"
  /\ scr_h \in ScrHeights
  /\ key = NoKey /\ inp = None /\ wrote = None
  /\ pc = "render"
  /\ fp_line = <<>> /\ fp_term = None /\ fp_res = <<>>

\* get_wch returned k and its branch ran: the loop goes back to draw
Dispatch(k) == pc = "input" /\ key' = k /\ pc' = "render"

\* draw: window_h from the terminal height, then clamp; then the loop
\* blocks in get_wch (the key, the prompt answer and the text written of
\* the last round are dead from here on and are shown as NoKey and None)
Draw ==
  /\ pc = "render"
  /\ window_h' = Max(1, scr_h - 2)
  /\ top' = clamp(top, sel, total, window_h')[1]
  /\ sel' = clamp(top, sel, total, window_h')[2]
  /\ pc' = "input"
  /\ key' = NoKey /\ inp' = None /\ wrote' = None
  /\ UNCHANGED <<buffer_vars, search_vars, status_msg, status_type, scr_h,
                 fp_vars>>

\* 'up' with `if` in place of `elif`: sel and top both move
KeyUp_both ==
  /\ Dispatch("UP")
  /\ wrote' = None
  /\ inp' = None
  /\ sel' = IF sel > 0 THEN sel - 1 ELSE sel
  /\ top' = IF top > 0 THEN top - 1 ELSE top
  /\ set_status(Msg("", <<>>), "info")
  /\ UNCHANGED <<buffer_vars, search_vars, window_h, scr_h, fp_vars>>

\* KEY_UP / 'k'
KeyUp ==
  /\ Dispatch("UP")
  /\ wrote' = None
  /\ inp' = None
  /\ IF sel > 0 THEN sel' = sel - 1 /\ top' = top
     ELSE IF top > 0 THEN top' = top - 1 /\ sel' = sel
     ELSE top' = top /\ sel' = sel
  /\ set_status(Msg("", <<>>), "info")
  /\ UNCHANGED <<buffer_vars, search_vars, window_h, scr_h, fp_vars>>

\* 'down' with the window edge test off by one
KeyDown_edge ==
  /\ Dispatch("DOWN")
  /\ wrote' = None
  /\ inp' = None
  /\ IF selected_index + 1 < total
     THEN IF sel + 1 <= window_h THEN sel' = sel + 1 /\ top' = top
          ELSE top' = top + 1 /\ sel' = sel
     ELSE top' = top /\ sel' = sel
  /\ set_status(Msg("", <<>>), "info")
  /\ UNCHANGED <<buffer_vars, search_vars, window_h, scr_h, fp_vars>>

\* KEY_DOWN / 'j'
KeyDown ==
  /\ Dispatch("DOWN")
  /\ wrote' = None
  /\ inp' = None
  /\ IF selected_index + 1 < total
     THEN IF sel + 1 < window_h THEN sel' = sel + 1 /\ top' = top
          ELSE top' = top + 1 /\ sel' = sel
     ELSE top' = top /\ sel' = sel
  /\ set_status(Msg("", <<>>), "info")
  /\ UNCHANGED <<buffer_vars, search_vars, window_h, scr_h, fp_vars>>

\* KEY_PPAGE
KeyPPage ==
  /\ Dispatch("PPAGE")
  /\ wrote' = None
  /\ inp' = None
  /\ LET page == Max(1, window_h - 1) IN top' = Max(0, top - page)
  /\ set_status(Msg("", <<>>), "info")
  /\ UNCHANGED <<buffer_vars, search_vars, sel, window_h, scr_h, fp_vars>>

\* page down without the upper limit on top
KeyNPage_unclamped ==
  /\ Dispatch("NPAGE")
  /\ wrote' = None
  /\ inp' = None
  /\ LET page == Max(1, window_h - 1) IN top' = top + page
  /\ set_status(Msg("", <<>>), "info")
  /\ UNCHANGED <<buffer_vars, search_vars, sel, window_h, scr_h, fp_vars>>

\* KEY_NPAGE
KeyNPage ==
  /\ Dispatch("NPAGE")
  /\ wrote' = None
  /\ inp' = None
  /\ LET page == Max(1, window_h - 1)
     IN top' = Min(Max(0, total - window_h), top + page)
  /\ set_status(Msg("", <<>>), "info")
  /\ UNCHANGED <<buffer_vars, search_vars, sel, window_h, scr_h, fp_vars>>

\* 'g': int() of a text that isdigit() accepts but is no decimal raises
\* ValueError, which nothing catches
KeyGoto ==
  /\ pc = "input" /\ key' = "g"
  /\ wrote' = None
  /\ \E n \in GotoInputs :
       /\ inp' = n
       /\ IF n # None /\ n # <<>> /\ IsDigit(Strip(n))
          THEN IF IntOk(Strip(n))
               THEN LET ln0 == ToInt(Strip(n)) - 1
                        ln == Max(0, Min(ln0, Max(0, total - 1)))
                        t1 == Max(0, ln - (window_h \div 2))
                        c == clamp(t1, ln - t1, total, window_h)
                    IN /\ top' = c[1] /\ sel' = c[2]
                       /\ set_status(Msg("Jumped to {}", <<ln + 1>>), "ok")
                       /\ pc' = "render"
               ELSE /\ pc' = "crash"
                    /\ UNCHANGED <<top, sel, status_msg, status_type>>
          ELSE /\ IF n # None THEN set_status(Msg("Invalid line", <<>>), "err")
                  ELSE UNCHANGED <<status_msg, status_type>>
               /\ pc' = "render"
               /\ UNCHANGED <<top, sel>>
  /\ UNCHANGED <<buffer_vars, search_vars, window_h, scr_h, fp_vars>>

\* 'e' without the recompute of the search index
KeyEdit_stale ==
  /\ Dispatch("e")
  /\ wrote' = None
  /\ LET idx == selected_index IN
     IF 0 <= idx /\ idx < total
     THEN \E new \in EditInputs :
            LET cur == lines[idx + 1] IN
            IF new # None /\ new # cur
            THEN /\ lines' = [lines EXCEPT ![idx + 1] = new]
                 /\ inp' = new
                 /\ modified' = TRUE
                 /\ set_status(Msg("Line updated", <<>>), "ok")
            ELSE /\ set_status(Msg("Edit cancelled", <<>>), "info")
                 /\ inp' = new
                 /\ UNCHANGED <<lines, modified>>
     ELSE /\ set_status(Msg("Nothing to edit", <<>>), "err")
          /\ inp' = None
          /\ UNCHANGED <<lines, modified>>
  /\ UNCHANGED <<trailing_nl, search_vars, top, sel, window_h, scr_h, fp_vars>>

\* 'e'
KeyEdit ==
  /\ Dispatch("e")
  /\ wrote' = None
  /\ LET idx == selected_index IN
     IF 0 <= idx /\ idx < total
     THEN \E new \in EditInputs :
            LET cur == lines[idx + 1] IN
            IF new # None /\ new # cur
            THEN LET ls == [lines EXCEPT ![idx + 1] = new]
                     r == recompute_search(ls, search_term, selected_index)
                 IN /\ lines' = ls
                    /\ inp' = new
                    /\ modified' = TRUE
                    /\ set_status(Msg("Line updated", <<>>), "ok")
                    /\ IF search_term # None /\ search_term # <<>>
                       THEN search_matches' = r.matches /\ match_index' = r.index
                       ELSE UNCHANGED <<search_matches, match_index>>
            ELSE /\ set_status(Msg("Edit cancelled", <<>>), "info")
                 /\ inp' = new
                 /\ UNCHANGED <<lines, modified, search_matches, match_index>>
     ELSE /\ set_status(Msg("Nothing to edit", <<>>), "err")
          /\ inp' = None
          /\ UNCHANGED <<lines, modified, search_matches, match_index>>
  /\ UNCHANGED <<trailing_nl, search_term, top, sel, window_h, scr_h, fp_vars>>

\* 's' clearing the modified flag before the write, so also when it fails
KeySave_clears ==
  /\ Dispatch("s")
  /\ inp' = None
  /\ modified' = FALSE
  /\ \E ok \in BOOLEAN :
       IF ok THEN /\ wrote' = write_file(lines, trailing_nl)
                  /\ set_status(Msg("Saved", <<>>), "ok")
       ELSE /\ wrote' = None
            /\ set_status(Msg("Save error: {}", <<>>), "err")
  /\ UNCHANGED <<lines, trailing_nl, search_vars, top, sel, window_h, scr_h,
                 fp_vars>>

\* 's': write_file either completes, and the file holds the text wrote, or
\* raises, and what the file holds is not known (None)
KeySave ==
  /\ Dispatch("s")
  /\ inp' = None
  /\ \E ok \in BOOLEAN :
       IF ok THEN /\ wrote' = write_file(lines, trailing_nl)
                  /\ modified' = FALSE
                  /\ set_status(Msg("Saved", <<>>), "ok")
       ELSE /\ wrote' = None
            /\ modified' = modified
            /\ set_status(Msg("Save error: {}", <<>>), "err")
  /\ UNCHANGED <<lines, trailing_nl, search_vars, top, sel, window_h, scr_h,
                 fp_vars>>

\* '/' whose clearing of the term keeps the match list
KeySearch_keeps ==
  /\ Dispatch("/")
  /\ wrote' = None
  /\ \E term \in SearchInputs :
       IF term = None
       THEN /\ set_status(Msg("Search cancelled", <<>>), "info")
            /\ inp' = term
            /\ UNCHANGED <<search_vars, top, sel>>
       ELSE LET t == Strip(term) IN
            IF t = <<>>
            THEN /\ search_term' = None
                 /\ inp' = term
                 /\ UNCHANGED <<search_matches, match_index>>
                 /\ set_status(Msg("Search cleared", <<>>), "info")
                 /\ UNCHANGED <<top, sel>>
            ELSE LET r == recompute_search(lines, t, selected_index)
                 IN /\ search_term' = t
                    /\ inp' = term
                    /\ search_matches' = r.matches
                    /\ IF r.matches # <<>>
                       THEN LET g == goto_search_match(r.matches, r.index,
                                                       lines, window_h, TRUE)
                            IN /\ match_index' = g.index
                               /\ top' = g.top /\ sel' = g.sel
                               /\ set_status(g.status, "info")
                       ELSE /\ match_index' = r.index
                            /\ set_status(Msg("No matches for '{}'", <<>>), "err")
                            /\ UNCHANGED <<top, sel>>
  /\ UNCHANGED <<buffer_vars, window_h, scr_h, fp_vars>>

\* '/'
KeySearch ==
  /\ Dispatch("/")
  /\ wrote' = None
  /\ \E term \in SearchInputs :
       IF term = None
       THEN /\ set_status(Msg("Search cancelled", <<>>), "info")
            /\ inp' = term
            /\ UNCHANGED <<search_vars, top, sel>>
       ELSE LET t == Strip(term) IN
            IF t = <<>>
            THEN LET r == recompute_search(lines, None, selected_index)
                 IN /\ search_term' = None
                    /\ inp' = term
                    /\ search_matches' = r.matches /\ match_index' = r.index
                    /\ set_status(Msg("Search cleared", <<>>), "info")
                    /\ UNCHANGED <<top, sel>>
            ELSE LET r == recompute_search(lines, t, selected_index)
                 IN /\ search_term' = t
                    /\ inp' = term
                    /\ search_matches' = r.matches
                    /\ IF r.matches # <<>>
                       THEN LET g == goto_search_match(r.matches, r.index,
                                                       lines, window_h, TRUE)
                            IN /\ match_index' = g.index
                               /\ top' = g.top /\ sel' = g.sel
                               /\ set_status(g.status, "info")
                       ELSE /\ match_index' = r.index
                            /\ set_status(Msg("No matches for '{}'", <<>>), "err")
                            /\ UNCHANGED <<top, sel>>
  /\ UNCHANGED <<buffer_vars, window_h, scr_h, fp_vars>>

\* 'n' / 'N' that put the cursor on position 0 before looking at the list
KeyMatch_reset(k, forward) ==
  /\ Dispatch(k)
  /\ wrote' = None
  /\ inp' = None
  /\ IF search_matches = <<>>
     THEN /\ set_status(Msg("No matches", <<>>), "err")
          /\ match_index' = 0
          /\ UNCHANGED <<top, sel>>
     ELSE LET g == goto_search_match(search_matches, match_index,
                                     lines, window_h, forward)
          IN /\ match_index' = g.index
             /\ top' = g.top /\ sel' = g.sel
             /\ set_status(g.status, "info")
  /\ UNCHANGED <<buffer_vars, search_term, search_matches, window_h, scr_h,
                 fp_vars>>

\* 'n' (forward) and 'N' (backward)
KeyMatch(k, forward) ==
  /\ Dispatch(k)
  /\ wrote' = None
  /\ inp' = None
  /\ IF search_matches = <<>>
     THEN /\ set_status(Msg("No matches", <<>>), "err")
          /\ UNCHANGED <<match_index, top, sel>>
     ELSE LET g == goto_search_match(search_matches, match_index,
                                     lines, window_h, forward)
          IN /\ match_index' = g.index
             /\ top' = g.top /\ sel' = g.sel
             /\ set_status(g.status, "info")
  /\ UNCHANGED <<buffer_vars, search_term, search_matches, window_h, scr_h,
                 fp_vars>>

KeyNext == KeyMatch("n", TRUE)

KeyPrev == KeyMatch("N", FALSE)

\* the read of 'r' that resets the modified flag when the read fails
ReloadRead_clears ==
  \/ /\ pc' = "exit"
     /\ UNCHANGED <<buffer_vars, search_matches, match_index,
                    status_msg, status_type>>
  \/ /\ set_status(Msg("Reload error: {}", <<>>), "err")
     /\ pc' = "render"
     /\ modified' = FALSE
     /\ UNCHANGED <<lines, trailing_nl, search_matches, match_index>>
  \/ \E raw \in Files :
       LET f == read_file(raw)
           r == recompute_search(f.lines, search_term, selected_index)
       IN /\ lines' = f.lines /\ trailing_nl' = f.trailing
          /\ modified' = FALSE
          /\ set_status(Msg("Reloaded", <<>>), "ok")
          /\ IF search_term # None
             THEN search_matches' = r.matches /\ match_index' = r.index
             ELSE UNCHANGED <<search_matches, match_index>>
          /\ pc' = "render"

\* 'r', once the question was answered or was not needed: read_file ends
\* the process when the file is gone (sys.exit raises SystemExit, which
\* `except Exception` does not catch), raises when the file cannot be read,
\* or returns the content the file holds now
ReloadRead ==
  \/ /\ pc' = "exit"
     /\ UNCHANGED <<buffer_vars, search_matches, match_index,
                    status_msg, status_type>>
  \/ /\ set_status(Msg("Reload error: {}", <<>>), "err")
     /\ pc' = "render"
     /\ UNCHANGED <<buffer_vars, search_matches, match_index>>
  \/ \E raw \in Files :
       LET f == read_file(raw)
           r == recompute_search(f.lines, search_term, selected_index)
       IN /\ lines' = f.lines /\ trailing_nl' = f.trailing
          /\ modified' = FALSE
          /\ set_status(Msg("Reloaded", <<>>), "ok")
          /\ IF search_term # None /\ search_term # <<>>
             THEN search_matches' = r.matches /\ match_index' = r.index
             ELSE UNCHANGED <<search_matches, match_index>>
          /\ pc' = "render"

\* 'r' going on to read the file whatever the answer was
KeyReload_unasked ==
  /\ pc = "input" /\ key' = "r"
  /\ wrote' = None
  /\ IF modified
     THEN \E ans \in ConfirmInputs : inp' = ans /\ ReloadRead
     ELSE inp' = None /\ ReloadRead
  /\ UNCHANGED <<search_term, top, sel, window_h, scr_h, fp_vars>>

\* 'r': the question is asked only when there are unsaved changes
KeyReload ==
  /\ pc = "input" /\ key' = "r"
  /\ wrote' = None
  /\ IF modified
     THEN \E ans \in ConfirmInputs :
            /\ inp' = ans
            /\ IF ~Yes(ans)
               THEN /\ set_status(Msg("Reload cancelled", <<>>), "info")
                    /\ pc' = "render"
                    /\ UNCHANGED <<buffer_vars, search_matches, match_index>>
               ELSE ReloadRead
     ELSE inp' = None /\ ReloadRead
  /\ UNCHANGED <<search_term, top, sel, window_h, scr_h, fp_vars>>

\* 't': the theme editor runs, then the status is set
KeyTheme ==
  /\ Dispatch("t")
  /\ wrote' = None
  /\ inp' = None
  /\ set_status(Msg("Applied theme from config.json", <<>>), "ok")
  /\ UNCHANGED <<buffer_vars, search_vars, top, sel, window_h, scr_h, fp_vars>>

\* KEY_RESIZE: the terminal has a new height
KeyResize ==
  /\ Dispatch("RESIZE")
  /\ wrote' = None
  /\ inp' = None
  /\ scr_h' \in ScrHeights
  /\ set_status(Msg("Resized", <<>>), "info")
  /\ UNCHANGED <<buffer_vars, search_vars, top, sel, window_h, fp_vars>>

\* 'q' / ESC
KeyQuit ==
  /\ pc = "input" /\ key' = "q"
  /\ wrote' = None
  /\ IF modified
     THEN \E ans \in ConfirmInputs :
            inp' = ans /\ pc' = IF Yes(ans) THEN "exit" ELSE "render"
     ELSE inp' = None /\ pc' = "exit"
  /\ UNCHANGED <<buffer_vars, search_vars, top, sel, window_h, scr_h,
                 status_msg, status_type, fp_vars>>

\* any other key, or get_wch raising an Exception: back to draw
KeyOther ==
  /\ Dispatch("OTHER")
  /\ wrote' = None
  /\ inp' = None
  /\ UNCHANGED <<buffer_vars, search_vars, top, sel, window_h, scr_h,
                 status_msg, status_type, fp_vars>>

\* KeyboardInterrupt in get_wch: the loop ends
Interrupt ==
  /\ pc = "input" /\ key' = key /\ inp' = None /\ pc' = "exit"
  /\ wrote' = None
  /\ UNCHANGED <<buffer_vars, search_vars, top, sel, window_h, scr_h,
                 status_msg, status_type, fp_vars>>

Next ==
  \/ Draw \/ KeyUp \/ KeyDown \/ KeyPPage \/ KeyNPage \/ KeyGoto \/ KeyEdit
  \/ KeySave \/ KeySearch \/ KeyNext \/ KeyPrev \/ KeyReload \/ KeyTheme
  \/ KeyResize \/ KeyQuit \/ KeyOther \/ Interrupt

Spec == Init /\ [][Next]_vars

\* ------------------------------------------------ recompute_search alone
\* the line texts and the characters of the terms recompute_search is run on
ScanTexts == {<<>>, <<"A">>, <<"a", "B">>, <<"b", "A">>, <<"b">>}

ScanTermChars == {"a", "A", "b"}

\* a session with some buffer, some term typed (or none) and the selection
\* on some line, at the call of recompute_search
InitRS ==
  /\ lines \in SeqsUpTo(ScanTexts, MaxScanLines)
  /\ search_term \in SeqsUpTo(ScanTermChars, MaxTermLen) \cup {None}
  /\ top = 0 /\ sel \in 0..Max(0, Len(lines) - 1)
  /\ window_h = Max(1, Len(lines)) /\ scr_h = window_h + 2
  /\ trailing_nl = FALSE /\ modified = FALSE
  /\ search_matches = <<>> /\ match_index = -1
  /\ status_msg = Msg("", <<>>) /\ status_type = "info"
  /\ key = NoKey /\ inp = None /\ wrote = None /\ pc = "call"
  /\ fp_line = <<>> /\ fp_term = None /\ fp_res = <<>>

\* recompute_search(st)
Recompute ==
  /\ pc = "call" /\ pc' = "return"
  /\ LET r == recompute_search(lines, search_term, selected_index)
     IN search_matches' = r.matches /\ match_index' = r.index
  /\ UNCHANGED <<buffer_vars, search_term, top, sel, window_h, scr_h,
                 status_msg, status_type, key, inp, wrote, fp_vars>>

NextRS == Recompute

SpecRS == InitRS /\ [][NextRS]_vars

\* -------------------------------------------------- find_positions alone
\* the characters of the lines and terms find_positions is run on
FpChars == {"a", "A", "b", "Idot"}

\* draw is about to call find_positions(line, st.search_term) for a row
InitFP ==
  /\ fp_line \in SeqsUpTo(FpChars, MaxLineLen)
  /\ fp_term \in SeqsUpTo(FpChars, MaxTermLen) \cup {None}
  /\ fp_res = <<>>
  /\ lines = <<fp_line>> /\ search_term = fp_term
  /\ top = 0 /\ sel = 0 /\ window_h = 1 /\ scr_h = 3
  /\ trailing_nl = FALSE /\ modified = FALSE
  /\ search_matches = <<>> /\ match_index = -1
  /\ status_msg = Msg("", <<>>) /\ status_type = "info"
  /\ key = NoKey /\ inp = None /\ wrote = None /\ pc = "call"

\* matches = find_positions(line, st.search_term)
FindPositions ==
  /\ pc = "call" /\ pc' = "return"
  /\ fp_res' = find_positions(fp_line, fp_term)
  /\ UNCHANGED <<buffer_vars, search_vars, top, sel, window_h, scr_h,
                 status_msg, status_type, key, inp, wrote, fp_line, fp_term>>

NextFP == FindPositions

SpecFP == InitFP /\ [][NextFP]_vars

\* ------------------------------------------------------------ clamp alone
\* a buffer of 0..MaxLines lines, a window of 1..MaxScrH rows and a top and
\* sel inside or outside their ranges, at the call of clamp
InitClamp ==
  /\ \E k \in 0..MaxLines : lines = FileBody(k)
  /\ top \in -1..(MaxLines + 1) /\ sel \in -1..MaxScrH
  /\ window_h \in 1..MaxScrH /\ scr_h = window_h + 2
  /\ trailing_nl = FALSE /\ modified = FALSE
  /\ search_term = None /\ search_matches = <<>> /\ match_index = -1
  /\ status_msg = Msg("", <<>>) /\ status_type = "info"
  /\ key = NoKey /\ inp = None /\ wrote = None /\ pc = "call"
  /\ fp_line = <<>> /\ fp_term = None /\ fp_res = <<>>

\* st.clamp(), called once and then once more
Clamp ==
  /\ pc \in {"call", "again"}
  /\ pc' = IF pc = "call" THEN "again" ELSE "return"
  /\ top' = clamp(top, sel, total, window_h)[1]
  /\ sel' = clamp(top, sel, total, window_h)[2]
  /\ UNCHANGED <<buffer_vars, search_vars, window_h, scr_h, status_msg,
                 status_type, key, inp, wrote, fp_vars>>

NextClamp == Clamp

SpecClamp == InitClamp /\ [][NextClamp]_vars

\* ---------------------------------------------------------------- claims
\* the viewport invariant of (top, sel) for a buffer of n lines and a
\* window of h rows
ViewportOk(t, s, n, h) ==
  /\ 0 <= t /\ t <= Max(0, n - h)
  /\ 0 <= s /\ s < h
  /\ (n > 0 => t + s < n)
  /\ (n = 0 => t = 0 /\ s = 0)

\* C1: whenever the session waits for the next input (the render pass has
\* run clamp), the window height is at least 1 and 0 <= top <= max(0, L-H),
\* 0 <= sel < H, top + sel < L when L > 0, and top = sel = 0 when L = 0.
C1_Viewport ==
  pc = "input" => window_h >= 1 /\ ViewportOk(top, sel, total, window_h)

\* C1 witness: after a reload the session waits with the selection pinned
\* to the last line of a buffer longer than the window
C1_Witness ==
  /\ pc = "input" /\ status_msg.text = "Reloaded"
  /\ total > window_h /\ top = total - window_h /\ sel = window_h - 1

\* the line indices whose lower-cased text contains the lower-cased term
MatchSet(ls, term) ==
  {i \in 0..(Len(ls) - 1) : Contains(Lower(term), Lower(ls[i + 1]))}

\* ms lists exactly the elements of S, ascending, each once
IsAscendingListOf(ms, S) ==
  /\ {ms[k] : k \in 1..Len(ms)} = S
  /\ \A k \in 1..(Len(ms) - 1) : ms[k] < ms[k + 1]

\* C2: after recompute_search the match list is exactly the ascending list
\* of the indices of the lines whose lower-cased text contains the
\* lower-cased term; with an empty or absent term the list is empty and the
\* match cursor is -1.
C2_Recompute ==
  pc = "return" =>
    IF search_term = None \/ search_term = <<>>
    THEN search_matches = <<>> /\ match_index = -1
    ELSE IsAscendingListOf(search_matches, MatchSet(lines, search_term))

\* C2 witness: a term in another case than the text matches two lines and
\* misses one
C2_Witness ==
  /\ pc = "return" /\ search_term = <<"a">>
  /\ Len(lines) = 3 /\ search_matches = <<0, 2>>
  /\ lines[1] = <<"A">>

\* C3: after recompute_search with a non-empty match list the match cursor
\* is the smallest position k with matches[k] >= top + sel, and 0 when no
\* match is at or after the selected line.
C3_Cursor ==
  (pc = "return" /\ search_matches # <<>>) =>
    LET later == {k \in 0..(Len(search_matches) - 1) :
                    search_matches[k + 1] >= top + sel}
    IN /\ match_index \in 0..(Len(search_matches) - 1)
       /\ IF later = {} THEN match_index = 0
          ELSE match_index \in later /\ \A k \in later : match_index <= k

\* C3 witness: the selected line lies after a first match and the cursor is
\* on a later one
C3_Witness ==
  /\ pc = "return" /\ Len(search_matches) >= 2
  /\ search_matches[1] < top + sel /\ match_index >= 1

\* C3 witness of the wrap: every match lies before the selected line
C3_WitnessWrap ==
  /\ pc = "return" /\ search_matches # <<>>
  /\ \A k \in 1..Len(search_matches) : search_matches[k] < top + sel

\* C6: find_positions returns spans (s, e) with e - s = len(term),
\* 0 <= s < e <= len(line), the text of each span equal to the term up to
\* case, each span starting at or after the end of the one before; an empty
\* or absent term gives no spans.
C6_Spans ==
  pc = "return" =>
    IF fp_term = None \/ fp_term = <<>> THEN fp_res = <<>>
    ELSE \A k \in 1..Len(fp_res) :
           LET s == fp_res[k][1]
               e == fp_res[k][2]
           IN /\ e - s = Len(fp_term)
              /\ 0 <= s /\ s < e /\ e <= Len(fp_line)
              /\ Lower(Slice(fp_line, s, e)) = Lower(fp_term)
              /\ (k > 1 => s >= fp_res[k - 1][2])

\* the smallest element of a non-empty set of integers
SetMin(S) == CHOOSE m \in S : \A x \in S : m <= x

\* a key handler has just run: get_wch returned k in this step
Handled(k) == pc = "input" /\ key' = k

\* the render pass that follows the handler of k
Rendered(k) == pc = "render" /\ key = k /\ pc' = "input"

\* C4: a '/' search with a non-empty term that has matches selects the
\* nearest matching line at or after the line selected before, and the
\* first match only when no match lies at or after that line.
C4_ForwardSearch ==
  [][(Handled("/") /\ search_term' # None /\ search_matches' # <<>>) =>
       LET later == {search_matches'[k] : k \in 1..Len(search_matches')}
                      \cap (selected_index..Len(lines))
       IN top' + sel' = IF later # {} THEN SetMin(later)
                        ELSE search_matches'[1]]_vars

\* C5: with N matches and the match cursor k in [0, N), 'n' moves the
\* cursor to k+1, wrapping N-1 to 0, and 'N' moves it to k-1, wrapping 0 to
\* N-1; the match list is unchanged.
C5_Cycle ==
  [][(search_matches # <<>> /\ match_index >= 0
        /\ match_index < Len(search_matches)) =>
       /\ Handled("n") =>
            /\ match_index' = IF match_index = Len(search_matches) - 1
                              THEN 0 ELSE match_index + 1
            /\ search_matches' = search_matches
       /\ Handled("N") =>
            /\ match_index' = IF match_index = 0
                              THEN Len(search_matches) - 1
                              ELSE match_index - 1
            /\ search_matches' = search_matches]_vars

\* C5 witness: 'N' has wrapped the cursor from the first match to the last
\* of at least two
C5_Witness ==
  /\ pc = "render" /\ key = "N"
  /\ Len(search_matches) >= 2 /\ match_index = Len(search_matches) - 1

\* C5 witness: 'n' has wrapped the cursor from the last match to the first
C5_WitnessForward ==
  /\ pc = "render" /\ key = "n"
  /\ Len(search_matches) >= 2 /\ match_index = 0
  /\ status_msg.args = <<1, Len(search_matches), search_matches[1] + 1>>

\* C7: on a buffer longer than the window, 'down' and the render pass after
\* it move the selected line from i to i+1, and leave it on the last line
\* once it is there.
C7_Traversal ==
  [][/\ (Handled("DOWN") /\ window_h < total) =>
          top' + sel' = Min(top + sel + 1, total - 1)
     /\ (Rendered("DOWN") /\ window_h < total) =>
          top' + sel' = top + sel]_vars

\* C7 witness: 'down' has scrolled the selection onto the last line of a
\* buffer longer than the window
C7_Witness ==
  /\ pc = "render" /\ key = "DOWN" /\ window_h < total
  /\ top + sel = total - 1 /\ top = total - window_h /\ top > 0

\* C8: 'up' and 'down' change only top or sel, by one: inside the window
\* sel moves and top stays, at the window edge top moves and sel stays, on
\* line 0 ('up') and on the last line ('down') neither moves; the buffer,
\* the search state and the modified flag are unchanged.
C8_Move ==
  [][/\ Handled("DOWN") =>
          IF top + sel + 1 >= total THEN top' = top /\ sel' = sel
          ELSE IF sel + 1 < window_h THEN top' = top /\ sel' = sel + 1
          ELSE top' = top + 1 /\ sel' = sel
     /\ Handled("UP") =>
          IF top + sel = 0 THEN top' = top /\ sel' = sel
          ELSE IF sel > 0 THEN top' = top /\ sel' = sel - 1
          ELSE top' = top - 1 /\ sel' = sel
     /\ (Handled("DOWN") \/ Handled("UP")) =>
          UNCHANGED <<buffer_vars, search_vars>>]_vars

\* C8 witness: 'down' at the bottom row of the window has scrolled
C8_Witness ==
  /\ pc = "render" /\ key = "DOWN"
  /\ top > 0 /\ sel = window_h - 1 /\ top + sel < total - 1

\* C8 witness: 'up' at the top row of the window has scrolled
C8_WitnessUp ==
  /\ pc = "render" /\ key = "UP"
  /\ sel = 0 /\ top > 0 /\ top < total - window_h

\* C9: page up / page down set top to top -/+ max(1, H-1) clamped into
\* [0, max(0, L-H)] and leave sel unchanged, and the render pass after them
\* changes neither.
C9_Page ==
  [][LET page == Max(1, window_h - 1)
         max_top == Max(0, total - window_h)
     IN /\ Handled("PPAGE") =>
             top' = Max(0, Min(max_top, top - page)) /\ sel' = sel
        /\ Handled("NPAGE") =>
             top' = Max(0, Min(max_top, top + page)) /\ sel' = sel
        /\ (Rendered("PPAGE") \/ Rendered("NPAGE")) =>
             top' = top /\ sel' = sel]_vars

\* C9 witness: page down was cut short at the last window position
C9_Witness ==
  /\ pc = "render" /\ key = "NPAGE" /\ window_h >= 3
  /\ top = total - window_h /\ top = 1

\* C9 witness: page up from a scrolled window
C9_WitnessUp ==
  /\ pc = "render" /\ key = "PPAGE" /\ top = 1 /\ window_h = 2 /\ sel = 1

\* C10: an edit that changes the text replaces exactly the selected line,
\* keeps the line count, top and sel (also over the render pass), sets the
\* modified flag and, with a term active, leaves the match list that a
\* recompute over the edited buffer gives (empty, with cursor -1, when no
\* line matches any more); an edit that changes no text changes only the
\* status message.
C10_Edit ==
  [][/\ (Handled("e") /\ lines' # lines) =>
          /\ Len(lines') = Len(lines)
          /\ \A i \in 1..Len(lines) :
               (lines'[i] # lines[i]) <=> (i = top + sel + 1)
          /\ top' = top /\ sel' = sel /\ modified'
          /\ trailing_nl' = trailing_nl /\ search_term' = search_term
          /\ status_msg'.text = "Line updated"
          /\ search_term # None =>
               /\ IsAscendingListOf(search_matches', MatchSet(lines', search_term))
               /\ MatchSet(lines', search_term) = {} => match_index' = -1
     /\ (Handled("e") /\ lines' = lines) =>
          /\ UNCHANGED <<buffer_vars, search_vars, top, sel, window_h>>
          /\ status_msg'.text # "Line updated"
     /\ Rendered("e") => top' = top /\ sel' = sel /\ lines' = lines]_vars

\* C10 witness: the only matching line was edited and the match list is
\* empty now
C10_Witness ==
  /\ pc = "render" /\ key = "e" /\ status_msg.text = "Line updated"
  /\ search_term = <<"A">> /\ search_matches = <<>> /\ match_index = -1
  /\ modified /\ total >= 2

\* the state the save, reload, jump and goto claims call unchanged
session_vars == <<lines, trailing_nl, modified, top, sel, search_term,
                  search_matches, match_index>>

\* C11: a save that succeeds clears the modified flag; a save that fails
\* keeps the flag, reports an error status and the loop goes on; either way
\* the buffer, the trailing-newline flag, the viewport and the search state
\* are unchanged, also over the render pass that follows.
C11_Save ==
  [][/\ Handled("s") =>
          /\ pc' = "render"
          /\ \/ /\ status_msg'.text = "Saved" /\ status_type' = "ok"
                /\ ~modified'
             \/ /\ status_msg'.text = "Save error: {}" /\ status_type' = "err"
                /\ modified' = modified
          /\ UNCHANGED <<lines, trailing_nl, top, sel, window_h, search_vars>>
     /\ Rendered("s") =>
          UNCHANGED <<session_vars, window_h>>]_vars

\* C11 witness: a save of a modified buffer has failed
C11_Witness ==
  /\ pc = "render" /\ key = "s" /\ status_type = "err" /\ modified

\* C11 witness: a save of a modified buffer has succeeded
C11_WitnessSaved ==
  /\ pc = "render" /\ key = "s" /\ status_msg.text = "Saved" /\ ~modified
  /\ \E raw \in Files : read_file(raw).lines # lines

\* C12: a reload that does not obtain the file content, the file being
\* gone included, keeps the session running, reports an error status and
\* leaves the buffer, the trailing-newline flag and the modified flag alone.
C12_ReloadFailure ==
  [][Handled("r") =>
       /\ pc' = "render"
       /\ status_msg'.text \in {"Reloaded", "Reload cancelled",
                                "Reload error: {}"}
       /\ status_msg'.text = "Reload error: {}" =>
            status_type' = "err" /\ UNCHANGED buffer_vars]_vars

\* the answer is 'y' in either case
IsYes(a) == a = <<"y">> \/ a = <<"Y">>

\* C13: with unsaved changes a reload whose question is not answered 'y'
\* (either case) or is cancelled changes only the status message; a reload
\* that replaces the buffer was confirmed or had nothing unsaved, and a
\* reload that completes with "Reloaded" holds a content of the file, has
\* cleared the modified flag and leaves the match list of the new buffer
\* when a term is active.
C13_ReloadConfirm ==
  [][/\ (Handled("r") /\ modified /\ ~IsYes(inp')) =>
          UNCHANGED <<session_vars, window_h>> /\ pc' = "render"
     /\ (Handled("r") /\ pc' = "render"
           /\ status_msg'.text = "Reload cancelled") =>
          modified /\ ~IsYes(inp')
     /\ (Handled("r") /\ (lines' # lines \/ trailing_nl' # trailing_nl
                            \/ modified' # modified)) =>
          /\ (modified => IsYes(inp'))
          /\ status_msg'.text = "Reloaded"
     /\ (Handled("r") /\ pc' = "render" /\ status_msg'.text = "Reloaded") =>
          /\ \E raw \in Files :
               lines' = read_file(raw).lines
               /\ trailing_nl' = read_file(raw).trailing
          /\ ~modified'
          /\ search_term' = search_term
          /\ search_term # None =>
               IsAscendingListOf(search_matches', MatchSet(lines', search_term))]_vars

\* C13 witness: unsaved changes were kept because the answer was not 'y'
C13_Witness ==
  /\ pc = "render" /\ key = "r" /\ inp = <<"n">> /\ modified
  /\ status_msg.text = "Reload cancelled"

\* C13 witness: a confirmed reload has replaced a modified buffer
C13_WitnessConfirmed ==
  /\ pc = "render" /\ key = "r" /\ inp = <<"Y">> /\ ~modified
  /\ status_msg.text = "Reloaded"

\* C14: 'n' / 'N' with an empty match list change nothing but the status,
\* which becomes the error "No matches"; the match cursor stays -1.
C14_NoMatches ==
  [][((Handled("n") \/ Handled("N")) /\ search_matches = <<>>) =>
       /\ UNCHANGED <<session_vars, window_h>>
       /\ match_index' = -1
       /\ status_msg' = Msg("No matches", <<>>) /\ status_type' = "err"
       /\ pc' = "render"]_vars

\* C14 witness: 'N' was pressed while a term without matches is active
C14_Witness ==
  /\ pc = "render" /\ key = "N" /\ status_msg.text = "No matches"
  /\ search_term # None /\ search_matches = <<>> /\ total > 0

\* s is a non-negative decimal number
IsDecimal(s) ==
  s # <<>> /\ \A i \in 1..Len(s) :
     s[i] \in {"0", "1", "2", "3", "4", "5", "6", "7", "8", "9"}

\* C15: a goto answered with a text that is no non-negative decimal number
\* changes only the status, which becomes the error "Invalid line", and
\* the loop goes on; a numeric answer reports and selects a line index in
\* [0, max(0, L-1)].
C15_Goto ==
  [][/\ (Handled("g") /\ inp' # None /\ ~IsDecimal(Strip(inp'))) =>
          /\ pc' = "render"
          /\ UNCHANGED <<session_vars, window_h>>
          /\ status_msg' = Msg("Invalid line", <<>>) /\ status_type' = "err"
     /\ (Handled("g") /\ inp' # None /\ IsDecimal(Strip(inp'))) =>
          /\ pc' = "render"
          /\ status_msg'.text = "Jumped to {}"
          /\ status_msg'.args[1] - 1 \in 0..Max(0, total - 1)
          /\ top' + sel' \in 0..Max(0, total - 1)]_vars

\* C16: a second clamp right after the first changes neither top nor sel,
\* and clamp changes neither when they satisfy the viewport invariant.
C16_ClampIdempotent ==
  [][/\ (pc = "again" /\ pc' = "return") => top' = top /\ sel' = sel
     /\ (pc # pc' /\ ViewportOk(top, sel, total, window_h)) =>
          top' = top /\ sel' = sel]_vars

\* C16 witness: clamp was called twice on a buffer shorter than the window
\* and the selection is on its last line
C16_Witness ==
  /\ pc = "return" /\ total = 2 /\ window_h = 3 /\ top = 0 /\ sel = 1

\* C17: after a goto to a line t of the buffer, and after 'n' / 'N' with
\* matches, the selected line top + sel is the target, the line the status
\* message reports.
C17_JumpTarget ==
  [][/\ (Handled("g") /\ inp' # None /\ IsDecimal(Strip(inp'))
           /\ pc' = "render" /\ total >= 1) =>
          top' + sel' = status_msg'.args[1] - 1
     /\ ((Handled("n") \/ Handled("N")) /\ search_matches # <<>>) =>
          /\ top' + sel' = search_matches'[match_index' + 1]
          /\ status_msg'.args[3] - 1 = top' + sel']_vars

\* C18: whenever the session waits for input the match list is the one a
\* recompute gives for the buffer and the term: the ascending indices of
\* the matching lines, and empty without a term.
C18_Fresh ==
  pc = "input" =>
    IF search_term = None THEN search_matches = <<>>
    ELSE IsAscendingListOf(search_matches, MatchSet(lines, search_term))

\* C18 witness: the session waits after a reload with a term active that
\* matches some but not all lines
C18_Witness ==
  /\ pc = "input" /\ status_msg.text = "Reloaded" /\ search_term # None
  /\ search_matches # <<>> /\ Len(search_matches) < total

\* C19: the match cursor is -1 exactly when the match list is empty, and
\* otherwise a position of the list that designates a line of the buffer.
C19_Cursor ==
  /\ (match_index = -1) <=> (search_matches = <<>>)
  /\ search_matches # <<>> =>
       /\ 0 <= match_index /\ match_index < Len(search_matches)
       /\ search_matches[match_index + 1] < total

\* C19 witness: an edit with a term active has left the cursor on the last
\* of several matches
C19_Witness ==
  /\ pc = "render" /\ key = "e" /\ status_msg.text = "Line updated"
  /\ Len(search_matches) >= 2 /\ match_index = Len(search_matches) - 1

\* C20: every step that changes the buffer or the trailing-newline flag
\* sets the modified flag unless it is a successful reload; the flag is
\* cleared only by a successful save or a successful reload; and a
\* successful save clears it, leaves the buffer alone and hands the writer
\* the buffer joined under its flag.
C20_Modified ==
  [][/\ (lines' # lines \/ trailing_nl' # trailing_nl) =>
          \/ modified'
          \/ Handled("r") /\ pc' = "render" /\ status_msg'.text = "Reloaded"
     /\ (modified /\ ~modified') =>
          \/ Handled("s") /\ status_msg'.text = "Saved"
          \/ Handled("r") /\ pc' = "render" /\ status_msg'.text = "Reloaded"
     /\ (Handled("s") /\ status_msg'.text = "Saved") =>
          /\ ~modified'
          /\ lines' = lines /\ trailing_nl' = trailing_nl
          /\ wrote' = write_file(lines', trailing_nl')]_vars

\* C20 witness: a reload confirmed over unsaved edits has failed and the
\* modified flag is still set
C20_Witness ==
  /\ pc = "render" /\ key = "r" /\ IsYes(inp)
  /\ status_msg.text = "Reload error: {}" /\ modified

\* C20 witness: an edited buffer was saved and the flag is clear
C20_WitnessSaved ==
  /\ pc = "render" /\ key = "s" /\ status_msg.text = "Saved"
  /\ ~modified /\ wrote # None /\ total >= 2

====
